---- MODULE Spec2Model ----
(***************************************************************************)
(* A model of the retrieval-augmented scoring core of knnlm-why:           *)
(*   - fairseq/sequence_scorer.py : SequenceScorer.generate                *)
(*   - analysis/faiss_mask_flat_gpu.py : the temperature sweep             *)
(*                                                                         *)
(* Floats are modelled in fixed point.  A probability is an integer number *)
(* of 1/Scale units (Scale = 2^FracBits); a log-probability is an integer  *)
(* number of log2 units, log being the floor of the base-2 logarithm.      *)
(* Positions, offsets and token ids are 0-based, as in the Python source;  *)
(* TLA+ sequences are 1-based, so position p is element p+1.               *)
(*                                                                         *)
(* Left out of generate: the attention average (avg_attn), the alignment   *)
(* extraction, the fp16 cast and the hypothesis fields attention,          *)
(* alignment, dstore_keys and queries; none of them writes a value that    *)
(* the scoring path reads.                                                 *)
(***************************************************************************)
EXTENDS Integers, Sequences, FiniteSets, TLC

(***************************************************************************)
(* Bounds of the model.                                                    *)
(***************************************************************************)
\* largest bsz * tsz of a scored batch
MaxCells == 4
\* largest number of models in the ensemble handed to generate
MaxModels == 2
\* fractional bits of the fixed-point probabilities
FracBits == 3
\* largest tsz of a batch in the output-assembly specification
MaxLen == 5
\* largest number of queries of the sweep
MaxQueries == 3
\* number of temperature values of the sweep (np.arange(2.0, 15.1, 0.1) in the source)
NumTemps == 2

(***************************************************************************)
(* Floating-point values.                                                  *)
(***************************************************************************)
\* float nan, e.g. the log of a negative number
NaN == -2000000
\* float -inf: the log of zero
NegInf == -1000000
\* the content of a cell of an uninitialised buffer (Tensor.new)
Uninit == -3000000

RECURSIVE Pow2(_)
Pow2(k) == IF k <= 0 THEN 1 ELSE 2 * Pow2(k - 1)

Scale == Pow2(FracBits)

RECURSIVE ILog2(_)
ILog2(x) == IF x <= 1 THEN 0 ELSE 1 + ILog2(x \div 2)

\* torch.log / np.log of a probability in 1/Scale units
Ln(x) ==
  IF x = NaN \/ x < 0 THEN NaN
  ELSE IF x = 0 THEN NegInf
  ELSE ILog2(x) - FracBits

\* exp of a log-probability, in 1/Scale units (underflows to 0)
Exp(l) ==
  IF l = NaN THEN NaN
  ELSE IF l = NegInf THEN 0
  ELSE IF l + FracBits < 0 THEN 0
  ELSE Pow2(l + FracBits)

\* float addition
Add(a, b) ==
  IF a = NaN \/ b = NaN THEN NaN
  ELSE IF a = NegInf \/ b = NegInf THEN NegInf
  ELSE a + b

\* float division by a count
Div(a, n) ==
  IF a = NaN THEN NaN
  ELSE IF n = 0 THEN (IF a = 0 THEN NaN ELSE NegInf)
  ELSE IF a = NegInf THEN NegInf
  ELSE a \div n

RECURSIVE SumSeq(_)
SumSeq(xs) == IF xs = <<>> THEN 0 ELSE Add(Head(xs), SumSeq(Tail(xs)))

RECURSIVE MaxSeq(_)
MaxSeq(xs) ==
  IF Len(xs) = 1 THEN Head(xs)
  ELSE LET r == MaxSeq(Tail(xs)) IN IF Head(xs) >= r THEN Head(xs) ELSE r

\* torch.logsumexp over a sequence: max + log(sum(exp(x - max)))
LogSumExp(xs) ==
  IF \E k \in 1..Len(xs) : xs[k] = NaN THEN NaN
  ELSE LET mx == MaxSeq(xs) IN
       IF mx = NegInf THEN NegInf
       ELSE LET shifted == [k \in 1..Len(xs) |->
                              IF xs[k] = NegInf THEN 0 ELSE Exp(xs[k] - mx)]
            IN  Add(mx, Ln(SumSeq(shifted)))


(***************************************************************************)
(* Tensors.  A 2-D tensor is a sequence of rows; a flat tensor a sequence. *)
(***************************************************************************)
MinOf(a, b) == IF a <= b THEN a ELSE b

Bsz(t) == Len(t)

Tsz(t) == Len(t[1])

\* Tensor.numel
Numel(t) == Bsz(t) * Tsz(t)

\* t.contiguous().view(1, -1): row-major flattening of a 2-D tensor
Flatten(t) == [p \in 1..Numel(t) |-> t[((p - 1) \div Tsz(t)) + 1][((p - 1) % Tsz(t)) + 1]]

\* flat.view(b, t): row-major reshape of a flat tensor
View(flat, b, t) == [i \in 1..b |-> [j \in 1..t |-> flat[(i - 1) * t + j]]]

\* the Python slice xs[s:e] (0-based, half-open, cut at the end of xs)
PySlice(xs, s, e) == SubSeq(xs, s + 1, MinOf(e, Len(xs)))

(***************************************************************************)
(* The dictionary, the ensemble members and the projection matrix.         *)
(***************************************************************************)
\* token ids of the target dictionary
Vocab == {0, 1}

\* tgt_dict.pad()
Pad == 1

\* args.pseudo_vocab_ratio when a projection matrix is configured
pseudo_vocab_ratio == 2

\* the expanded pseudo-vocabulary the model predicts over when coef is set
PseudoVocab == 0..(Cardinality(Vocab) * pseudo_vocab_ratio - 1)

\* self.coef: the one-hot cluster matrix, |Vocab| x |PseudoVocab|
Coef == [v \in Vocab |-> [u \in PseudoVocab |-> IF u \div pseudo_vocab_ratio = v THEN 1 ELSE 0]]

\* the models an ensemble is drawn from: each is identified by a number
ModelKinds == {1, 2}

\* sample['net_input'] values
NetInputs == {0}

\* model(**net_input)[0]: the decoder feature at each (i, j) of a bsz x tsz batch
DecoderOut(model, net_input, b, t) ==
  [i \in 1..b |-> [j \in 1..t |-> model + net_input + (i - 1) * t + (j - 1)]]

\* the softmax of one decoder feature over the plain vocabulary, in 1/Scale units
VocabSoftmax(f) ==
  [v \in Vocab |-> IF v = 0 THEN Scale \div Pow2(1 + (f % 3))
                   ELSE Scale - (Scale \div Pow2(1 + (f % 3)))]

\* the softmax of one decoder feature over the pseudo-vocabulary, in 1/Scale units
PseudoSoftmax(f) ==
  [u \in PseudoVocab |->
     CASE f % 3 = 0 -> (IF u \in {2, 3} THEN Scale \div 2 ELSE 0)
       [] f % 3 = 1 -> (IF u \in {0, 1} THEN Scale \div 4 ELSE IF u = 2 THEN Scale \div 2 ELSE 0)
       [] OTHER     -> (IF u = 0 THEN Scale \div 2 ELSE IF u = 1 THEN Scale \div 4 ELSE Scale \div 8)]

\* model.get_normalized_probs(bd, log_probs): position-wise (log-)softmax of a
\* slice of decoder features; the output dimension is the model's vocabulary
get_normalized_probs(bd, log_probs, projected) ==
  [r \in 1..Len(bd) |-> [c \in 1..Len(bd[r]) |->
     LET dist == IF projected THEN PseudoSoftmax(bd[r][c]) ELSE VocabSoftmax(bd[r][c])
     IN  [v \in DOMAIN dist |-> IF log_probs THEN Ln(dist[v]) ELSE dist[v]]]]

\* the clamp floor 1e-9: the smallest positive fixed-point value
Eps == 1

RECURSIVE DotFrom(_, _, _)
DotFrom(row, dist, u) ==
  IF u \notin DOMAIN dist THEN 0 ELSE row[u] * dist[u] + DotFrom(row, dist, u + 1)

\* torch.log(torch.clamp(torch.sparse.mm(self.coef, curr_prob.T).T, min=1e-9))
\* on the squeezed slice (a sequence of distributions over the pseudo-vocabulary)
ProjectLog(rows) ==
  [c \in 1..Len(rows) |-> [v \in Vocab |->
     LET mass == DotFrom(Coef[v], rows[c], 0)
     IN  Ln(IF mass < Eps THEN Eps ELSE mass)]]

\* gather_target_probs: probs.gather(dim=2, index=target.unsqueeze(-1))
gather_target_probs(probs, target) ==
  [r \in 1..Len(target) |-> [c \in 1..Len(target[r]) |-> probs[r][c][target[r][c]]]]

\* dstore.get_knn_log_prob: the retrieval log-probability of the target at (i, j)
KnnLogProb(target) ==
  [i \in 1..Bsz(target) |-> [j \in 1..Tsz(target) |->
     0 - ((i + j + target[i][j]) % 3)]]

\* combine_knn_and_vocab_probs on one position
combine_knn_and_vocab_probs(knn_p, vocab_p, coeff) ==
  LogSumExp(<<Add(vocab_p, Ln(Scale - coeff)), Add(knn_p, Ln(coeff))>>)

\* utils.strip_pad(tensor, pad) = tensor[tensor.ne(pad)]
strip_pad(xs, pad) == SelectSeq(xs, LAMBDA x : x # pad)


(***************************************************************************)
(* State of one call of SequenceScorer.generate(models, sample, **kwargs). *)
(***************************************************************************)
VARIABLES
  models,        \* the ensemble: a sequence of model kinds
  softmax_batch, \* self.softmax_batch
  coef,          \* TRUE when self.coef is not None
  knn,           \* TRUE when 'knn_dstore' is in kwargs
  lmbda,         \* self.args.lmbda, in 1/Scale units
  sample,        \* the sample dict: target, net_input, start_indices (when has_start)
  sample_in,     \* the sample as it was handed to the call
  orig_target,   \* orig_target = sample['target']
  pc,            \* position in generate
  mi,            \* index of the current model in models (1-based)
  gen,           \* the batch_for_softmax generator: started, s, is_single
  bd,            \* the slice of decoder features of the current iteration
  tgt,           \* the slice of the target of the current iteration
  curr_prob,     \* curr_prob of the current iteration
  probs,         \* probs of the current model (<<>> is None)
  idx,           \* write offset into the flat probs buffer
  avg_probs,     \* avg_probs (<<>> is None)
  yhat_knn_prob, \* retrieval log-probabilities (<<>> before the datastore is asked)
  hypos,         \* the returned list (<<>> until generate returns)
  err,           \* the exception generate ended with, "" when none
  model_evals,   \* number of model(**net_input) calls so far
  knn_calls,     \* number of dstore.get_knn_log_prob calls so far
  writes         \* per flat cell, how often the current model's buffer cell was written

genVars == <<models, softmax_batch, coef, knn, lmbda, sample, sample_in, orig_target,
             pc, mi, gen, bd, tgt, curr_prob, probs, idx, avg_probs, yhat_knn_prob,
             hypos, err, model_evals, knn_calls, writes>>

(***************************************************************************)
(* State of the temperature sweep of analysis/faiss_mask_flat_gpu.py.      *)
(***************************************************************************)
VARIABLES
  queries,     \* all_queries.npy: one query vector per position
  tokens,      \* tokens.npy: the target token of each query
  vals,        \* the datastore's values, one token id per key
  sw_pc,       \* position in the sweep: "temp" (top of the for loop) or "batch"
  temp_i,      \* index of the current temperature in np.arange(2.0, 15.1, 0.1)
  batch_idx,   \* batch_idx of the inner loop
  all_probs,   \* all_probs: one array per batch
  all_knns,    \* all_knns: one array per batch
  all_dists,   \* all_dists: one array per batch
  index_mask,  \* index_mask of the last batch
  batch_knns,  \* knns of the last batch
  batch_tgt,   \* tgt of the last batch
  searched,    \* the query positions handed to index.search for this temperature, in order
  saved        \* the files written by np.save, in order: temp and the three arrays

sweepVars == <<queries, tokens, vals, sw_pc, temp_i, batch_idx, all_probs, all_knns,
               all_dists, index_mask, batch_knns, batch_tgt, searched, saved>>

vars == <<genVars, sweepVars>>

\* all sequences over S of length 0..n
RECURSIVE SeqsUpTo(_, _)
SeqsUpTo(S, n) ==
  IF n = 0 THEN {<<>>}
  ELSE LET shorter == SeqsUpTo(S, n - 1)
       IN  shorter \cup {Append(q, x) : q \in {r \in shorter : Len(r) = n - 1}, x \in S}

\* the (bsz, tsz) shapes of a batch of at most n cells
Shapes(n) == {sh \in (1..n) \X (1..n) : sh[1] * sh[2] <= n}

\* mixing weights handed in by the caller: 0, 1/2 and 1
Lmbdas == {0, Scale \div 2, Scale}

\* the samples of a shape: every target over the dictionary; with offsets,
\* every start offset inside the sequence for each row
SamplesOf(sh, offsets) ==
  {[target |-> t, net_input |-> x, has_start |-> offsets, start_indices |-> st] :
      t \in [1..sh[1] -> [1..sh[2] -> Vocab]],
      x \in NetInputs,
      st \in IF offsets THEN [1..sh[1] -> 0..(sh[2] - 1)] ELSE {[i \in 1..sh[1] |-> 0]}}

\* the state generate starts in, once its inputs are chosen
GenEntry(at) ==
  /\ sample_in = sample
  /\ orig_target = sample.target
  /\ pc = at
  /\ mi = 1
  /\ gen = [started |-> FALSE, s |-> 0, is_single |-> FALSE]
  /\ bd = <<>>
  /\ tgt = <<>>
  /\ curr_prob = <<>>
  /\ probs = <<>>
  /\ idx = 0
  /\ avg_probs = <<>>
  /\ yhat_knn_prob = <<>>
  /\ hypos = <<>>
  /\ err = ""
  /\ model_evals = 0
  /\ knn_calls = 0
  /\ writes = <<>>

\* the sweep's variables while generate is modelled
SweepIdle ==
  /\ queries = <<>>
  /\ tokens = <<>>
  /\ vals = <<>>
  /\ sw_pc = "idle"
  /\ temp_i = 0
  /\ batch_idx = 0
  /\ all_probs = <<>>
  /\ all_knns = <<>>
  /\ all_dists = <<>>
  /\ index_mask = <<>>
  /\ batch_knns = <<>>
  /\ batch_tgt = <<>>
  /\ searched = <<>>
  /\ saved = <<>>

\* generate's variables while the sweep is modelled
GenIdle ==
  /\ models = <<>>
  /\ softmax_batch = 1
  /\ coef = FALSE
  /\ knn = FALSE
  /\ lmbda = Scale \div 2
  /\ sample = [target |-> <<>>, net_input |-> 0, has_start |-> FALSE, start_indices |-> <<>>]
  /\ GenEntry("idle")

\* Calls of generate over every softmax_batch from 1 to bsz * tsz + 1, every
\* ensemble, with and without projection matrix and datastore; no start offsets.
GenInit ==
  /\ models \in SeqsUpTo(ModelKinds, MaxModels)
  /\ coef \in BOOLEAN
  /\ knn \in BOOLEAN
  /\ lmbda \in Lmbdas
  /\ (~(knn /\ Len(models) = 1) => lmbda = Scale \div 2)
  /\ sample \in UNION {SamplesOf(sh, FALSE) : sh \in Shapes(MaxCells)}
  /\ softmax_batch \in 1..(Numel(sample.target) + 1)
  /\ GenEntry("model")
  /\ SweepIdle

\* Calls of generate with start offsets: SingleShot calls (softmax_batch is
\* sys.maxsize by default) on batches of up to MaxCells cells and on single
\* sequences of up to MaxLen tokens, with and without offsets.
ScoreInit ==
  /\ models \in SeqsUpTo(ModelKinds, MaxModels)
  /\ coef \in BOOLEAN
  /\ knn \in BOOLEAN
  /\ lmbda = Scale \div 2
  /\ sample \in UNION {SamplesOf(sh, h) :
                         sh \in Shapes(MaxCells) \cup {<<1, n>> : n \in 1..MaxLen},
                         h \in BOOLEAN}
  /\ softmax_batch = Numel(sample.target) + 1
  /\ GenEntry("model")
  /\ SweepIdle

(***************************************************************************)
(* generate: the loop over the models and, per model, over the slices.     *)
(***************************************************************************)
\* decoder_out = model(**net_input), for the current model
DecOut == DecoderOut(models[mi], sample.net_input, Bsz(orig_target), Tsz(orig_target))

\* for model in models: model.eval(); decoder_out = model(**net_input);
\* batched = batch_for_softmax(decoder_out, orig_target); probs, idx = None, 0
StartModel ==
  /\ UNCHANGED sweepVars
  /\ pc = "model"
  /\ mi <= Len(models)
  /\ model_evals' = model_evals + 1
  /\ gen' = [started |-> FALSE, s |-> 0, is_single |-> FALSE]
  /\ probs' = <<>>
  /\ idx' = 0
  /\ writes' = [p \in 1..Numel(orig_target) |-> 0]
  /\ pc' = "next"
  /\ UNCHANGED <<models, softmax_batch, coef, knn, lmbda, sample, sample_in, orig_target,
                 mi, bd, tgt, curr_prob, avg_probs, yhat_knn_prob, hypos, err, knn_calls>>

\* batch_for_softmax: if bsz * tsz < self.softmax_batch
IsSingleShot == Numel(orig_target) < softmax_batch

\* batch_for_softmax: e = s + self.softmax_batch
SliceEnd(s) == s + softmax_batch

\* batch_for_softmax: the value of s when the generator is resumed (s = 0, then s = e)
GenNextS == IF gen.started THEN SliceEnd(gen.s) ELSE 0

\* batch_for_softmax: the generator is exhausted (one yield in SingleShot;
\* while s < flat.size(1) otherwise)
GenStops ==
  IF gen.started /\ gen.is_single THEN TRUE
  ELSE IF ~gen.started /\ IsSingleShot THEN FALSE
  ELSE GenNextS >= Numel(orig_target)

\* the slice of decoder features the generator yields next
NextBd ==
  IF IsSingleShot THEN DecOut
  ELSE <<PySlice(Flatten(DecOut), GenNextS, SliceEnd(GenNextS))>>

\* the slice of the target the generator yields next
NextTgt ==
  IF IsSingleShot THEN orig_target
  ELSE <<PySlice(Flatten(orig_target), GenNextS, SliceEnd(GenNextS))>>

\* curr_prob before the projection: get_normalized_probs on the slice
RawProb ==
  IF coef THEN get_normalized_probs(NextBd, FALSE, TRUE)
  ELSE get_normalized_probs(NextBd, Len(models) = 1, FALSE)

\* assert curr_prob.shape[0] == 1
ShapeAssertion(raw) == Len(raw) = 1

\* for i, (bd, tgt, is_single) in enumerate(batched): sample['target'] = tgt;
\* curr_prob = ... (with the projection when coef is set)
SliceCompute ==
  /\ UNCHANGED sweepVars
  /\ pc = "next"
  /\ ~GenStops
  /\ coef => ShapeAssertion(RawProb)
  /\ gen' = [started |-> TRUE, s |-> GenNextS, is_single |-> IsSingleShot]
  /\ bd' = NextBd
  /\ tgt' = NextTgt
  /\ sample' = [sample EXCEPT !.target = NextTgt]
  /\ curr_prob' = IF coef THEN <<ProjectLog(RawProb[1])>> ELSE RawProb
  /\ pc' = "gather"
  /\ UNCHANGED <<models, softmax_batch, coef, knn, lmbda, sample_in, orig_target, mi,
                 probs, idx, avg_probs, yhat_knn_prob, hypos, err, model_evals,
                 knn_calls, writes>>

\* the same iteration when the assertion on curr_prob.shape[0] fails
SliceAssertFail ==
  /\ UNCHANGED sweepVars
  /\ pc = "next"
  /\ ~GenStops
  /\ coef
  /\ ~ShapeAssertion(RawProb)
  /\ gen' = [started |-> TRUE, s |-> GenNextS, is_single |-> IsSingleShot]
  /\ bd' = NextBd
  /\ tgt' = NextTgt
  /\ sample' = [sample EXCEPT !.target = NextTgt]
  /\ curr_prob' = RawProb
  /\ err' = "AssertionError"
  /\ pc' = "error"
  /\ UNCHANGED <<models, softmax_batch, coef, knn, lmbda, sample_in, orig_target, mi,
                 probs, idx, avg_probs, yhat_knn_prob, hypos, model_evals,
                 knn_calls, writes>>

\* the step taken from the first dimension alone: curr_prob.size(0)
WriteStepRows(cp) == Len(cp)

\* step = curr_prob.size(0) * curr_prob.size(1)
WriteStep(cp) == Len(cp) * Len(cp[1])

\* the restore left out: sample['target'] stays the slice's target
RestoreTargetSkipped(orig, slice_tgt) == slice_tgt

\* sample['target'] = orig_target, at the end of a slice iteration
RestoreTarget(orig, slice_tgt) == orig

\* the rest of the iteration: gather the target probabilities, write them to
\* probs (at idx in Chunked mode), restore sample['target']
Gather ==
  /\ UNCHANGED sweepVars
  /\ pc = "gather"
  /\ IF gen.is_single
     THEN /\ probs' = gather_target_probs(curr_prob, orig_target)
          /\ UNCHANGED <<idx, writes>>
     ELSE LET buf       == IF probs = <<>>
                           THEN [p \in 1..Numel(orig_target) |-> Uninit]
                           ELSE probs
              end       == WriteStep(curr_prob) + idx
              tgt_probs == Flatten(gather_target_probs(curr_prob, tgt))
              hit(p)    == idx < p /\ p <= end /\ p - idx <= Len(tgt_probs)
          IN  /\ probs' = [p \in 1..Len(buf) |-> IF hit(p) THEN tgt_probs[p - idx] ELSE buf[p]]
              /\ writes' = [p \in 1..Len(buf) |-> IF hit(p) THEN writes[p] + 1 ELSE writes[p]]
              /\ idx' = end
  /\ sample' = [sample EXCEPT !.target = RestoreTarget(orig_target, tgt)]
  /\ pc' = "next"
  /\ UNCHANGED <<models, softmax_batch, coef, knn, lmbda, sample_in, orig_target, mi,
                 gen, bd, tgt, curr_prob, avg_probs, yhat_knn_prob, hypos, err,
                 model_evals, knn_calls>>

\* the generator is exhausted: the for loop over batched ends
SlicesDone ==
  /\ UNCHANGED sweepVars
  /\ pc = "next"
  /\ GenStops
  /\ pc' = "post"
  /\ UNCHANGED <<models, softmax_batch, coef, knn, lmbda, sample, sample_in, orig_target,
                 mi, gen, bd, tgt, curr_prob, probs, idx, avg_probs, yhat_knn_prob,
                 hypos, err, model_evals, knn_calls, writes>>


(***************************************************************************)
(* generate: after the slices of one model, and the output assembly.       *)
(***************************************************************************)
\* probs = probs.view(sample['target'].shape)
ViewedProbs ==
  IF gen.is_single THEN probs
  ELSE View(probs, Bsz(sample.target), Tsz(sample.target))

\* the check inverted: len(models) == 1 raises
KnnRejectsInverted(n) == n = 1

\* if len(models) != 1: raise ValueError('Only knn *log* probs are supported.')
KnnRejects(n) == n # 1

\* if 'knn_dstore' in kwargs and len(models) != 1: the call ends with ValueError
PostKnnReject ==
  /\ UNCHANGED sweepVars
  /\ pc = "post"
  /\ knn
  /\ KnnRejects(Len(models))
  /\ probs' = ViewedProbs
  /\ err' = "ValueError"
  /\ pc' = "error"
  /\ UNCHANGED <<models, softmax_batch, coef, knn, lmbda, sample, sample_in, orig_target,
                 mi, gen, bd, tgt, curr_prob, idx, avg_probs, yhat_knn_prob, hypos,
                 model_evals, knn_calls, writes>>

\* avg_probs.add_(probs)
AddTensors(a, b) == [i \in 1..Len(a) |-> [j \in 1..Len(a[i]) |-> Add(a[i][j], b[i][j])]]

\* the retrieval fusion (when a datastore is given) and the accumulation of
\* this model's probs into avg_probs
PostAccumulate ==
  /\ UNCHANGED sweepVars
  /\ pc = "post"
  /\ knn => ~KnnRejects(Len(models))
  /\ LET yhat  == KnnLogProb(orig_target)
         fused == IF knn
                  THEN [i \in 1..Len(ViewedProbs) |-> [j \in 1..Len(ViewedProbs[i]) |->
                          combine_knn_and_vocab_probs(yhat[i][j], ViewedProbs[i][j], lmbda)]]
                  ELSE ViewedProbs
     IN  /\ probs' = fused
         /\ yhat_knn_prob' = IF knn THEN yhat ELSE yhat_knn_prob
         /\ knn_calls' = IF knn THEN knn_calls + 1 ELSE knn_calls
         /\ avg_probs' = IF avg_probs = <<>> THEN fused ELSE AddTensors(avg_probs, fused)
  /\ mi' = mi + 1
  /\ pc' = "model"
  /\ UNCHANGED <<models, softmax_batch, coef, knn, lmbda, sample, sample_in, orig_target,
                 gen, bd, tgt, curr_prob, idx, hypos, err, model_evals, writes>>

\* if len(models) > 1: avg_probs.div_(len(models)); avg_probs.log_()
EnsembleAverage(avg, n) ==
  IF n > 1 THEN [i \in 1..Len(avg) |-> [j \in 1..Len(avg[i]) |-> Ln(Div(avg[i][j], n))]]
  ELSE avg

\* start_idxs = sample['start_indices'] if 'start_indices' in sample else [0] * bsz
StartIdxs(smp, bsz) ==
  IF smp.has_start THEN smp.start_indices ELSE [i \in 1..bsz |-> 0]

\* the slice taken from position 0: avg_probs[i][:tgt_len]
PositionalSliceFromZero(row, start, tgt_len) == PySlice(row, 0, tgt_len)

\* avg_probs[i][start_idxs[i]:start_idxs[i] + tgt_len]
PositionalSlice(row, start, tgt_len) == PySlice(row, start, start + tgt_len)

\* one entry of hypos, for sequence i (1-based)
Hypo(avg, smp, yhat, with_knn, i) ==
  LET start   == StartIdxs(smp, Len(avg))[i]
      ref     == strip_pad(PySlice(smp.target[i], start, Len(smp.target[i])), Pad)
      tgt_len == Len(ref)
      avg_i   == PositionalSlice(avg[i], start, tgt_len)
  IN  [tokens            |-> ref,
       score             |-> Div(SumSeq(avg_i), tgt_len),
       positional_scores |-> avg_i,
       knn_probs         |-> IF with_knn THEN PositionalSlice(yhat[i], start, tgt_len)
                             ELSE <<>>]

\* no model was given: avg_probs is None and avg_probs.size(0) raises
FinishNoModels ==
  /\ UNCHANGED sweepVars
  /\ pc = "model"
  /\ mi > Len(models)
  /\ avg_probs = <<>>
  /\ err' = "AttributeError"
  /\ pc' = "error"
  /\ UNCHANGED <<models, softmax_batch, coef, knn, lmbda, sample, sample_in, orig_target,
                 mi, gen, bd, tgt, curr_prob, probs, idx, avg_probs, yhat_knn_prob,
                 hypos, model_evals, knn_calls, writes>>

\* the ensemble average and the hypotheses: generate returns hypos
Finish ==
  /\ UNCHANGED sweepVars
  /\ pc = "model"
  /\ mi > Len(models)
  /\ avg_probs # <<>>
  /\ LET avg == EnsembleAverage(avg_probs, Len(models))
     IN  /\ avg_probs' = avg
         /\ hypos' = [i \in 1..Len(avg) |-> Hypo(avg, sample, yhat_knn_prob, knn, i)]
  /\ pc' = "done"
  /\ UNCHANGED <<models, softmax_batch, coef, knn, lmbda, sample, sample_in, orig_target,
                 mi, gen, bd, tgt, curr_prob, probs, idx, yhat_knn_prob, err,
                 model_evals, knn_calls, writes>>

GenNext ==
  \/ StartModel
  \/ SliceCompute
  \/ SliceAssertFail
  \/ Gather
  \/ SlicesDone
  \/ PostKnnReject
  \/ PostAccumulate
  \/ FinishNoModels
  \/ Finish


(***************************************************************************)
(* The temperature sweep.  The datastore holds one-dimensional keys; the   *)
(* index is the exact (flat) L2 index.                                     *)
(***************************************************************************)
\* batch_size (2000 in the source), scaled down
batch_size == 2

\* topk (1024 in the source), scaled down
topk == 2

\* the bias of a candidate whose value is not the target
MaskNeg == -10000

\* keys: the datastore's key vectors
DstoreKeys == <<1, 3, 4>>

\* query vectors of all_queries.npy
QueryVecs == {0, 2}

\* token ids of tokens.npy and of the datastore's values
SweepTokens == {5, 7}

\* temp of iteration i of np.arange(2.0, 15.1, 0.1), in tenths
TempTenths(i) == 20 + i

\* squared L2 distance of the flat index
L2(q, key) == (q - key) * (q - key)

\* the ids (0-based) of the k keys nearest to q, nearest first (ties: lowest id)
RECURSIVE Nearest(_, _, _)
Nearest(q, k, taken) ==
  IF k = 0 \/ taken = 1..Len(DstoreKeys) THEN <<>>
  ELSE LET free == (1..Len(DstoreKeys)) \ taken
           best == CHOOSE a \in free : \A b \in free :
                     \/ L2(q, DstoreKeys[a]) < L2(q, DstoreKeys[b])
                     \/ (L2(q, DstoreKeys[a]) = L2(q, DstoreKeys[b]) /\ a <= b)
       IN  <<best - 1>> \o Nearest(q, k - 1, taken \cup {best})

\* index.search(batch_queries, topk): the ids of the neighbours of each query
SearchKnns(batch_queries) == [q \in 1..Len(batch_queries) |-> Nearest(batch_queries[q], topk, {})]

\* dists = -1 * dists, for one query: the negated distances of its neighbours
NegatedDists(query, ids) == [j \in 1..Len(ids) |-> 0 - L2(query, DstoreKeys[ids[j] + 1])]

\* F.log_softmax(dists / temp, dim=-1) of one row of negated distances
LogSoftmaxRow(row, tenths) ==
  LET scaled == [j \in 1..Len(row) |-> (row[j] * 10) \div tenths]
      lse    == LogSumExp(scaled)
  IN  [j \in 1..Len(row) |-> scaled[j] - lse]

\* torch.logsumexp(probs + index_mask, dim=-1) for one query
MaskedLogProb(row, mask_row, tenths) ==
  LET logp == LogSoftmaxRow(row, tenths)
  IN  LogSumExp([j \in 1..Len(row) |-> logp[j] + mask_row[j]])

\* torch.eq(vals[knns].squeeze(-1), tgt.unsqueeze(-1)).float()
EqMask(values, knns, target) ==
  [q \in 1..Len(knns) |-> [j \in 1..Len(knns[q]) |->
     IF values[knns[q][j] + 1] = target[q] THEN 1 ELSE 0]]

\* index_mask[index_mask == old] = new
Rewrite(mask, old, new) ==
  [q \in 1..Len(mask) |-> [j \in 1..Len(mask[q]) |-> IF mask[q][j] = old THEN new ELSE mask[q][j]]]

\* the two rewrites in the other order: 1 -> 0 first, then 0 -> -10000
IndexMaskSwapped(values, knns, target) ==
  Rewrite(Rewrite(EqMask(values, knns, target), 1, 0), 0, MaskNeg)

\* index_mask after the equality test and the two in-place rewrites
IndexMask(values, knns, target) ==
  Rewrite(Rewrite(EqMask(values, knns, target), 0, MaskNeg), 1, 0)

\* the batch count without the last, partial batch: len(queries) // batch_size
NumBatchesFloor(n) == n \div batch_size

\* num_batches = len(queries) // batch_size + 1
NumBatchesOf(n) == n \div batch_size + 1

num_batches == NumBatchesOf(Len(queries))

RECURSIVE Concatenate(_)
\* np.concatenate of a list of arrays along the first axis
Concatenate(arrays) ==
  IF arrays = <<>> THEN <<>> ELSE Head(arrays) \o Concatenate(Tail(arrays))

\* the files loaded before the sweep: queries and tokens of equal length, the
\* datastore's values
SweepInit ==
  /\ \E n \in 1..MaxQueries :
       /\ queries \in [1..n -> QueryVecs]
       /\ tokens \in [1..n -> SweepTokens]
  /\ vals \in [1..Len(DstoreKeys) -> SweepTokens]
  /\ sw_pc = "temp"
  /\ temp_i = 0
  /\ batch_idx = 0
  /\ all_probs = <<>>
  /\ all_knns = <<>>
  /\ all_dists = <<>>
  /\ index_mask = <<>>
  /\ batch_knns = <<>>
  /\ batch_tgt = <<>>
  /\ searched = <<>>
  /\ saved = <<>>
  /\ GenIdle

\* for temp in np.arange(2.0, 15.1, 0.1): all_probs = []; all_knns = []; all_dists = []
BeginTemp ==
  /\ sw_pc = "temp"
  /\ temp_i < NumTemps
  /\ all_probs' = <<>>
  /\ all_knns' = <<>>
  /\ all_dists' = <<>>
  /\ batch_idx' = 0
  /\ searched' = <<>>
  /\ sw_pc' = "batch"
  /\ UNCHANGED <<queries, tokens, vals, temp_i, index_mask, batch_knns, batch_tgt, saved>>
  /\ UNCHANGED genVars

\* one iteration of: for batch_idx in range(num_batches)
SweepBatch ==
  /\ sw_pc = "batch"
  /\ batch_idx < num_batches
  /\ LET lo            == batch_idx * batch_size
         hi            == (batch_idx + 1) * batch_size
         batch_queries == PySlice(queries, lo, hi)
         target        == PySlice(tokens, lo, hi)
         knns          == SearchKnns(batch_queries)
         mask          == IndexMask(vals, knns, target)
     IN  /\ all_knns' = Append(all_knns, knns)
         /\ all_probs' = Append(all_probs,
              [q \in 1..Len(knns) |->
                 MaskedLogProb(NegatedDists(batch_queries[q], knns[q]), mask[q], TempTenths(temp_i))])
         /\ all_dists' = Append(all_dists,
              [q \in 1..Len(knns) |-> SumSeq(NegatedDists(batch_queries[q], knns[q]))])
         /\ index_mask' = mask
         /\ batch_knns' = knns
         /\ batch_tgt' = target
         /\ searched' = searched \o [q \in 1..Len(batch_queries) |-> lo + q - 1]
  /\ batch_idx' = batch_idx + 1
  /\ UNCHANGED <<queries, tokens, vals, sw_pc, temp_i, saved>>
  /\ UNCHANGED genVars

\* the three np.save calls that end a temperature
SweepSave ==
  /\ sw_pc = "batch"
  /\ batch_idx >= num_batches
  /\ saved' = Append(saved, [temp  |-> TempTenths(temp_i),
                             probs |-> Concatenate(all_probs),
                             knns  |-> Concatenate(all_knns),
                             dists |-> Concatenate(all_dists)])
  /\ temp_i' = temp_i + 1
  /\ sw_pc' = "temp"
  /\ UNCHANGED <<queries, tokens, vals, batch_idx, all_probs, all_knns, all_dists,
                 index_mask, batch_knns, batch_tgt, searched>>
  /\ UNCHANGED genVars

SweepNext ==
  \/ BeginTemp
  \/ SweepBatch
  \/ SweepSave

(***************************************************************************)
(* Specifications.                                                         *)
(***************************************************************************)
\* calls of generate in both modes
Spec == GenInit /\ [][GenNext]_vars

\* SingleShot calls of generate with start offsets
ScoreSpec == ScoreInit /\ [][GenNext]_vars

\* the temperature sweep
SweepSpec == SweepInit /\ [][SweepNext]_vars


(***************************************************************************)
(* Reference values: what the model assigns to the target at (i, j),       *)
(* computed from the whole batch without any slicing.                      *)
(***************************************************************************)
\* the decoder feature of `model` at (i, j) (1-based) of the batch
FeatureAt(model, i, j) ==
  DecoderOut(model, sample_in.net_input, Bsz(sample_in.target), Tsz(sample_in.target))[i][j]

RECURSIVE SumOver(_, _)
\* the sum of f over the set S
SumOver(f, S) ==
  IF S = {} THEN 0 ELSE LET u == CHOOSE w \in S : TRUE IN f[u] + SumOver(f, S \ {u})

\* the probability (not its log) `model` gives to target[i][j]: the softmax
\* entry or, with a projection matrix, the clamped mass of the token's group
TargetProb(model, i, j) ==
  LET tok  == sample_in.target[i][j]
      ps   == PseudoSoftmax(FeatureAt(model, i, j))
      mass == SumOver(ps, {u \in PseudoVocab : u \div pseudo_vocab_ratio = tok})
  IN  IF coef THEN (IF mass < Eps THEN Eps ELSE mass)
      ELSE VocabSoftmax(FeatureAt(model, i, j))[tok]

\* what one model contributes at (i, j) as the code is written: a
\* log-probability for a single model or with a projection matrix
ModelValue(model, i, j) ==
  IF coef \/ Len(models) = 1 THEN Ln(TargetProb(model, i, j)) ELSE TargetProb(model, i, j)

RECURSIVE SumProbs(_, _, _)
SumProbs(k, i, j) ==
  IF k = 0 THEN 0 ELSE TargetProb(models[k], i, j) + SumProbs(k - 1, i, j)

Rows == 1..Bsz(sample_in.target)

Cols == 1..Tsz(sample_in.target)

(***************************************************************************)
(* C1. Scoring a batch in SingleShot mode (softmax_batch above bsz * tsz)  *)
(* and in Chunked mode (softmax_batch at or below bsz * tsz) gives the     *)
(* same per-token target probabilities: in either mode the call gets to    *)
(* the reshape of probs for each model, and entry (i, j) is then the       *)
(* model's value for target[i][j] at position (i, j).                      *)
(***************************************************************************)
C1_ModesAgree ==
  /\ err # "AssertionError"
  /\ pc = "post" =>
       ViewedProbs = [i \in Rows |-> [j \in Cols |-> ModelValue(models[mi], i, j)]]

\* the same with the calls that compute probs only: entry (i, j) of the
\* reshaped probs is the model's value for target[i][j], in both modes
C1_AgreeWhenComputed ==
  pc = "post" =>
    ViewedProbs = [i \in Rows |-> [j \in Cols |-> ModelValue(models[mi], i, j)]]

(***************************************************************************)
(* C2. With more than one model, with or without a projection matrix, the  *)
(* value each model adds to avg_probs is a non-log probability, and the    *)
(* final per-token score is log(sum of the models' target probabilities /  *)
(* number of models).                                                      *)
(***************************************************************************)
C2_AveragesProbabilities ==
  Len(models) > 1 =>
    /\ (pc = "model" /\ mi > 1) =>
         probs = [i \in Rows |-> [j \in Cols |-> TargetProb(models[mi - 1], i, j)]]
    /\ pc = "done" =>
         avg_probs = [i \in Rows |-> [j \in Cols |->
                        Ln(Div(SumProbs(Len(models), i, j), Len(models)))]]

(***************************************************************************)
(* C3. With a knn_dstore and a number of models other than 1, the call     *)
(* ends with an error, returns no hypotheses, and never invokes            *)
(* get_knn_log_prob.                                                       *)
(***************************************************************************)
C3_KnnEnsembleRejected ==
  (knn /\ Len(models) # 1) =>
    /\ pc # "done"
    /\ hypos = <<>>
    /\ knn_calls = 0
    /\ yhat_knn_prob = <<>>
    /\ avg_probs = <<>>
    /\ mi = 1
    /\ pc = "error" => err \in {"ValueError", "AssertionError", "AttributeError"}

C3_Witness ==
  /\ knn
  /\ Len(models) = 2
  /\ pc = "error"
  /\ err = "ValueError"
  /\ model_evals = 1

(***************************************************************************)
(* C4. With a mixing weight that is not strictly inside (0, 1) the         *)
(* interpolation fails before any datastore search or interpolation: the   *)
(* call never asks the datastore and never returns hypotheses.             *)
(***************************************************************************)
C4_InvalidWeightRejected ==
  (knn /\ ~(0 < lmbda /\ lmbda < Scale)) =>
    /\ knn_calls = 0
    /\ pc # "done"

RECURSIVE SumRange(_, _, _)
\* row[lo] + ... + row[hi] over 0-based positions
SumRange(row, lo, hi) ==
  IF lo > hi THEN 0 ELSE Add(row[lo + 1], SumRange(row, lo + 1, hi))

StartOf(i) == IF sample_in.has_start THEN sample_in.start_indices[i] ELSE 0

NonPadFrom(i) ==
  Cardinality({j \in StartOf(i)..(Tsz(sample_in.target) - 1) : sample_in.target[i][j + 1] # Pad})

(***************************************************************************)
(* C5. For every sequence i with start offset s (0 when start_indices is   *)
(* absent) and n non-pad target tokens from position s on, the positional  *)
(* scores are avg_probs[i] at positions s .. s+n-1 and the score is their  *)
(* sum divided by n; no position before s takes part.                      *)
(***************************************************************************)
C5_ScoreSkipsOffset ==
  pc = "done" =>
    \A i \in Rows :
      LET s == StartOf(i)
          n == NonPadFrom(i)
      IN  /\ Len(hypos[i].positional_scores) = n
          /\ \A k \in 1..n : hypos[i].positional_scores[k] = avg_probs[i][s + k]
          /\ hypos[i].score = Div(SumRange(avg_probs[i], s, s + n - 1), n)

\* offset 2 of length 5 without padding: positions 2, 3, 4 are averaged
C5_Witness ==
  /\ pc = "done"
  /\ sample_in.has_start
  /\ Bsz(sample_in.target) = 1
  /\ Tsz(sample_in.target) = 5
  /\ sample_in.start_indices[1] = 2
  /\ \A j \in 1..5 : sample_in.target[1][j] # Pad
  /\ hypos[1].positional_scores = <<avg_probs[1][3], avg_probs[1][4], avg_probs[1][5]>>
  /\ avg_probs[1][1] # avg_probs[1][3]

(***************************************************************************)
(* C6. After the equality test and the two rewrites, the bias of candidate *)
(* j of query q is 0 exactly when vals[knns[q][j]] is the target of q and  *)
(* -10000 otherwise.                                                       *)
(***************************************************************************)
C6_MaskZeroIffMatch ==
  \A q \in 1..Len(index_mask) : \A j \in 1..Len(index_mask[q]) :
    /\ index_mask[q][j] \in {0, MaskNeg}
    /\ index_mask[q][j] = 0 <=> vals[batch_knns[q][j] + 1] = batch_tgt[q]

C6_Witness ==
  /\ sw_pc = "batch"
  /\ \E q \in 1..Len(index_mask) : \E j, k \in 1..Len(index_mask[q]) :
       /\ index_mask[q][j] = 0
       /\ index_mask[q][k] = MaskNeg

\* number of queries searched once batch_idx batches are done
DoneQueries == MinOf(batch_idx * batch_size, Len(queries))

(***************************************************************************)
(* C7. For every temperature the queries are searched in consecutive       *)
(* groups of at most batch_size, each query exactly once and in order; the *)
(* three output arrays start empty, hold one entry per query when saved,   *)
(* and are saved after the last batch of the temperature and before the    *)
(* first batch of the next one.                                            *)
(***************************************************************************)
C7_SweepCoversQueries ==
  /\ sw_pc = "batch" =>
       /\ Len(saved) = temp_i
       /\ searched = [k \in 1..DoneQueries |-> k - 1]
       /\ Len(all_probs) = batch_idx
       /\ Len(all_knns) = batch_idx
       /\ Len(all_dists) = batch_idx
       /\ \A b \in 1..batch_idx :
            /\ Len(all_knns[b]) <= batch_size
            /\ Len(all_knns[b]) = MinOf(b * batch_size, Len(queries))
                                    - MinOf((b - 1) * batch_size, Len(queries))
            /\ Len(all_probs[b]) = Len(all_knns[b])
            /\ Len(all_dists[b]) = Len(all_knns[b])
       /\ Len(Concatenate(all_knns)) = DoneQueries
       /\ \A k \in 1..DoneQueries : Concatenate(all_knns)[k] = Nearest(queries[k], topk, {})
  /\ sw_pc = "temp" =>
       /\ Len(saved) = temp_i
       /\ (temp_i > 0 => searched = [k \in 1..Len(queries) |-> k - 1])
  /\ \A t \in 1..Len(saved) :
       /\ saved[t].temp = TempTenths(t - 1)
       /\ Len(saved[t].probs) = Len(queries)
       /\ Len(saved[t].knns) = Len(queries)
       /\ Len(saved[t].dists) = Len(queries)
       /\ \A k \in 1..Len(queries) : saved[t].knns[k] = Nearest(queries[k], topk, {})

C7_Witness ==
  /\ Len(saved) = NumTemps
  /\ Len(queries) > batch_size
  /\ Len(queries) % batch_size # 0


(***************************************************************************)
(* C8. In Chunked mode the slices [s, e) are consecutive from 0, of length *)
(* softmax_batch except a possibly shorter last one, and cover each of the *)
(* bsz * tsz flat positions once; idx is the slice's start before each     *)
(* write and bsz * tsz after the last; every cell of the buffer is written *)
(* exactly once; the mode flag is the same for every slice of a call.      *)
(***************************************************************************)
C8_ChunksCoverOnce ==
  LET nc == Numel(orig_target) IN
  /\ gen.started => gen.is_single = IsSingleShot
  /\ (~IsSingleShot /\ gen.started) =>
       /\ softmax_batch >= 1
       /\ gen.s % softmax_batch = 0
       /\ gen.s < nc
       /\ Len(tgt) = 1
       /\ Len(tgt[1]) = MinOf(softmax_batch, nc - gen.s)
       /\ Len(bd[1]) = Len(tgt[1])
       /\ pc = "gather" =>
            /\ idx = gen.s
            /\ \A p \in 1..nc : writes[p] = IF p <= idx THEN 1 ELSE 0
            /\ \A p \in 1..Len(probs) : (probs[p] = Uninit) <=> (p > idx)
       /\ pc = "next" =>
            /\ idx = gen.s + Len(tgt[1])
            /\ Len(probs) = nc
            /\ \A p \in 1..nc : writes[p] = IF p <= idx THEN 1 ELSE 0
            /\ \A p \in 1..nc : (probs[p] = Uninit) <=> (p > idx)
            /\ GenStops <=> idx = nc
       /\ pc = "post" =>
            /\ idx = nc
            /\ \A p \in 1..nc : writes[p] = 1 /\ probs[p] # Uninit

\* a Chunked call whose last slice is shorter than softmax_batch has ended its slices
C8_Witness ==
  /\ ~IsSingleShot
  /\ pc = "post"
  /\ softmax_batch > 1
  /\ Numel(orig_target) % softmax_batch # 0
  /\ Numel(orig_target) > softmax_batch
  /\ idx = Numel(orig_target)

(***************************************************************************)
(* C9. With a projection matrix the projection step completes for every    *)
(* slice in both modes and for every batch size: the assertion             *)
(* curr_prob.shape[0] == 1 never fails.                                    *)
(***************************************************************************)
C9_ShapeAssertionHolds ==
  coef => ~(pc = "error" /\ err = "AssertionError")

(***************************************************************************)
(* C10. sample['target'] is the slice's target only while the slice's      *)
(* probabilities are computed; after each slice iteration and when         *)
(* generate returns it is the original target again; no other entry of     *)
(* sample changes.                                                         *)
(***************************************************************************)
C10_TargetRestored ==
  /\ orig_target = sample_in.target
  /\ sample.net_input = sample_in.net_input
  /\ sample.has_start = sample_in.has_start
  /\ sample.start_indices = sample_in.start_indices
  /\ pc = "gather" => sample.target = tgt
  /\ pc \in {"model", "next", "post", "done"} => sample.target = sample_in.target

\* after a slice iteration of the second model whose slice target was not the
\* whole target
C10_Witness ==
  /\ pc = "next"
  /\ gen.started
  /\ mi = 2
  /\ tgt # orig_target
  /\ sample.target = orig_target

====
